---- MODULE Spec2Model ----
(***************************************************************************)
(* Model of winix/cmd.py: the command-line dispatcher of the Winix client, *)
(* its Configuration (the JSON credential store) and the five subcommands. *)
(*                                                                         *)
(* The config file is a sequence of characters.  Configuration.save()      *)
(* serialises with json.dump and writes through a descriptor opened with   *)
(* O_CREAT | O_WRONLY; _load_from_disk() parses with json.load.  Remote    *)
(* collaborators (winix.auth.login/refresh, WinixAccount, WinixDevice)     *)
(* are nondeterministic: each call either returns a value drawn from a     *)
(* small set or raises.                                                    *)
(***************************************************************************)
EXTENDS Integers, Sequences, FiniteSets, TLC

VARIABLES
    dirExists,   \* the parent directory of config_path exists
    fileExists,  \* path.exists(config_path)
    file,        \* the bytes of the config file (<<>> when absent)
    pc,          \* per process: position in main() / execute() / save()
    cmd,         \* per process: parsed argparse.Namespace [name, arg]
    config,      \* per process: the Configuration object [exists, cognito, devices]
    err,         \* per process: the uncaught exception that ended it, or NoError
    events,      \* per process: remote calls and save() calls made, in order
    file0,       \* per process: the disk as it was when the process started
    wbuf,        \* per process: the text json.dump produced for the open file
    wpos,        \* per process: offset of the file descriptor opened by save()
    interrupts,  \* how many invocations have been killed so far
    umask,       \* the file mode creation mask the invocations run under
    dirMode,     \* permission bits of the parent directory, as octal digits
    fileMode,    \* permission bits of the config file, as octal digits
    out,         \* per process: what it has printed
    lastDevices, \* the list the directory returned to the last completed login or refresh
    lastSaver    \* the process whose save() returned last, or NoSaver

vars == <<dirExists, fileExists, file, pc, cmd, config, err, events, file0, wbuf, wpos,
          interrupts, umask, dirMode, fileMode, out, lastDevices,
                 lastSaver>>

----------------------------------------------------------------------------
(* Bounds *)

\* longest device list the Device Directory Client returns
MaxDevices == 2

\* invocations killed in one behaviour
MaxInterrupts == 1

\* characters a write() call moves from the buffer of the open file to the disk
BufferSize == 8

\* invocations of the CLI that may exist side by side; in Spec every invocation
\* is process p1, started after the previous one has exited
Procs == {"p1", "p2"}

----------------------------------------------------------------------------
(* Data: WinixAuthResponse, WinixDeviceStub, Configuration *)

\* Python's None; a record so that it compares with the dataclass records
Null == [none |-> TRUE]

\* WinixAuthResponse values the Auth Client may return; strings are character
\* sequences, and the two differ in the length of their serialisation
SessionA == [user_id |-> <<"u">>, access_token |-> <<"a">>, refresh_token |-> <<"r">>]
SessionB == [user_id |-> <<"u">>, access_token |-> <<"b", "b">>, refresh_token |-> <<"s">>]
Sessions == {SessionA, SessionB}

\* WinixDeviceStub values the Device Directory Client may return
Device1 == [id |-> <<"1">>, mac |-> <<"m">>, alias |-> <<"x">>, location_code |-> <<"l">>]
Device2 == [id |-> <<"2">>, mac |-> <<"n">>, alias |-> <<"y", "y">>, location_code |-> <<"l">>]
DeviceStubs == {Device1, Device2}

DeviceLists == UNION {[1..n -> DeviceStubs] : n \in 0..MaxDevices}

Usernames == {"user@example.com"}
FanLevels == {"low", "medium", "high", "turbo"}
PowerStates == {"on", "off"}

\* the state of a Configuration before _load_from_disk has run
EmptyConfig == [exists |-> FALSE, cognito |-> Null, devices |-> <<>>]

----------------------------------------------------------------------------
(* json.dump with JSONEncoder: the text written for a Configuration.       *)
(* Punctuation and key text are single characters; "q" is the string quote. *)

Quote(s) == <<"q">> \o s \o <<"q">>

DumpCognito(c) ==
    IF c = Null THEN <<"n">>
    ELSE <<"{">> \o Quote(c.user_id) \o Quote(c.access_token)
               \o Quote(c.refresh_token) \o <<"}">>

DumpDevice(d) ==
    <<"{">> \o Quote(d.id) \o Quote(d.mac) \o Quote(d.alias)
          \o Quote(d.location_code) \o <<"}">>

RECURSIVE DumpDevices(_)
DumpDevices(ds) ==
    IF ds = <<>> THEN <<>>
    ELSE DumpDevice(Head(ds)) \o DumpDevices(Tail(ds))

JsonDump(cognito, devices) ==
    <<"{", "c">> \o DumpCognito(cognito) \o <<",", "d", "[">>
                 \o DumpDevices(devices) \o <<"]", "}">>

----------------------------------------------------------------------------
(* json.load and the dataclass constructors: a parser over the characters. *)
(* Every parse result is [ok, val, next]; next is the first unread offset. *)

\* what json.load raises on text that is not one JSON value (line 37)
JsonError == "json.JSONDecodeError"
\* what a dataclass constructor raises on missing or unexpected fields (lines 39-40)
ShapeError == "TypeError: __init__() missing or unexpected argument"

Bad == [ok |-> FALSE, val |-> Null, next |-> 0, error |-> JsonError]
Good(v, n) == [ok |-> TRUE, val |-> v, next |-> n, error |-> "none"]

Min(S) == CHOOSE m \in S : \A k \in S : m <= k

At(f, i) == IF i >= 1 /\ i <= Len(f) THEN f[i] ELSE "EOF"

ParseString(f, i) ==
    IF At(f, i) # "q" THEN Bad
    ELSE LET closing == {j \in (i + 1)..Len(f) : f[j] = "q"}
         IN  IF closing = {} THEN Bad
             ELSE Good(SubSeq(f, i + 1, Min(closing) - 1), Min(closing) + 1)

\* a parsed element v put in front of the parsed rest of its list
Cons(v, rest) == IF rest.ok THEN Good(<<v>> \o rest.val, rest.next) ELSE Bad

\* the members of a JSON object, up to and including its closing brace
RECURSIVE ParseMembers(_, _)
RECURSIVE MembersAfter(_, _)
ParseMembers(f, i) ==
    IF At(f, i) = "}" THEN Good(<<>>, i + 1)
    ELSE MembersAfter(f, ParseString(f, i))

\* the members that follow the parsed member m
MembersAfter(f, m) == IF m.ok THEN Cons(m.val, ParseMembers(f, m.next)) ELSE Bad

\* a JSON object: the sequence of its member values
ParseObject(f, i) == IF At(f, i) # "{" THEN Bad ELSE ParseMembers(f, i + 1)

\* the value of 'cognito': null or an object
ParseCognito(f, i) ==
    IF At(f, i) = "n" THEN Good(Null, i + 1) ELSE ParseObject(f, i)

ParseDevice(f, i) == ParseObject(f, i)

RECURSIVE ParseDevices(_, _)
RECURSIVE DevicesAfter(_, _)
ParseDevices(f, i) ==
    IF At(f, i) = "]" THEN Good(<<>>, i + 1)
    ELSE DevicesAfter(f, ParseDevice(f, i))

\* the devices that follow the parsed device d
DevicesAfter(f, d) == IF d.ok THEN Cons(d.val, ParseDevices(f, d.next)) ELSE Bad

\* the end of the text after the parsed device list ds: the closing brace and
\* nothing behind it
ParseEnd(f, cognito, ds) ==
    IF ds.ok /\ At(f, ds.next) = "}" /\ ds.next = Len(f)
    THEN Good([cognito |-> cognito, devices |-> ds.val], ds.next + 1)
    ELSE Bad

\* the rest of the text after the parsed value c of 'cognito'
ParseAfterCognito(f, c) ==
    IF c.ok /\ At(f, c.next) = "," /\ At(f, c.next + 1) = "d" /\ At(f, c.next + 2) = "["
    THEN ParseEnd(f, c.val, ParseDevices(f, c.next + 3))
    ELSE Bad

\* json.load(f), line 37: the whole text must be one object; trailing
\* characters are an error
JsonParse(f) ==
    IF At(f, 1) # "{" \/ At(f, 2) # "c" THEN Bad
    ELSE ParseAfterCognito(f, ParseCognito(f, 3))

\* WinixAuthResponse(**js['cognito']): every field, and no other, must be given
AuthResponseOk(members) == Len(members) = 3
WinixAuthResponse(members) ==
    [user_id |-> members[1], access_token |-> members[2], refresh_token |-> members[3]]

\* WinixDeviceStub(**d)
DeviceStubOk(members) == Len(members) = 4
WinixDeviceStub(members) ==
    [id |-> members[1], mac |-> members[2], alias |-> members[3],
     location_code |-> members[4]]

\* faulty variant: fields missing from an object are left empty instead of
\* failing the load
JsonLoadLenient(f) ==
    LET js == JsonParse(f)
        Field(members, i) == IF i <= Len(members) THEN members[i] ELSE <<>>
    IN  IF ~js.ok THEN Bad
        ELSE Good([exists |-> TRUE,
                   cognito |-> IF js.val.cognito = Null THEN Null
                               ELSE WinixAuthResponse([i \in 1..3 |->
                                        Field(js.val.cognito, i)]),
                   devices |-> [i \in 1..Len(js.val.devices) |->
                                   WinixDeviceStub([k \in 1..4 |->
                                        Field(js.val.devices[i], k)])]],
                  js.next)

\* lines 39-40 on the parse result js: the two constructor expressions
FromJson(js) ==
    IF ~js.ok THEN Bad
    ELSE IF \/ (js.val.cognito # Null /\ ~AuthResponseOk(js.val.cognito))
            \/ \E i \in 1..Len(js.val.devices) : ~DeviceStubOk(js.val.devices[i])
    THEN [Bad EXCEPT !.error = ShapeError]
    ELSE Good([exists |-> TRUE,
               cognito |-> IF js.val.cognito = Null THEN Null
                           ELSE WinixAuthResponse(js.val.cognito),
               devices |-> [i \in 1..Len(js.val.devices) |->
                               WinixDeviceStub(js.val.devices[i])]],
              js.next)

\* json.load(f) followed by the two constructor expressions of lines 39-40
JsonLoad(f) == FromJson(JsonParse(f))

\* faulty variant: a missing file is read like an empty one
LoadFromDiskMissingFails(exists, bytes) ==
    IF exists THEN JsonLoad(bytes)
    ELSE JsonLoad(<<>>)

\* Configuration._load_from_disk on a disk [exists, bytes]
LoadFromDisk(exists, bytes) ==
    IF exists THEN JsonLoad(bytes)
    ELSE Good(EmptyConfig, 0)

\* a write of text at offset pos into a file that is not truncated
WriteAt(bytes, pos, text) ==
    LET end == pos + Len(text)
    IN  SubSeq(bytes, 1, pos) \o text \o SubSeq(bytes, end + 1, Len(bytes))

----------------------------------------------------------------------------
(* Outcomes of an invocation: the uncaught exception that ends it.  The    *)
(* names are those of the error taxonomy; the values say what is raised.   *)

NoError == "none"
\* what Configuration(...) raises on a file it cannot load (lines 37-40)
ConfigUnreadable == {JsonError, ShapeError}
\* self.config.cognito.user_id / .access_token with cognito None (lines 94, 174)
NoSessionError == "AttributeError: 'NoneType' object has no attribute"
\* self.devices[0] on an empty list (line 32)
NoDeviceError == "IndexError: list index out of range"
\* .execute looked up on a class that does not define it (line 201)
NoExecuteError == "AttributeError: object has no attribute 'execute'"
\* raised by winix.auth.login / winix.auth.refresh
AuthenticationFailed == "AuthenticationFailed"
\* raised by a WinixAccount call
AccountCallFailed == "AccountCallFailed"
\* raised by a WinixDevice call
ControlError == "ControlError"

----------------------------------------------------------------------------
(* Command lines accepted by the argument parser of main() *)

NoCmd == [name |-> "none", refresh |-> FALSE, arg |-> ""]
HelpCmd == [name |-> "help", refresh |-> FALSE, arg |-> ""]

Commands ==
    {HelpCmd}
    \cup {[name |-> "login", refresh |-> r, arg |-> u] : r \in BOOLEAN, u \in Usernames}
    \cup {[name |-> "refresh", refresh |-> FALSE, arg |-> ""]}
    \cup {[name |-> "devices", refresh |-> FALSE, arg |-> ""]}
    \cup {[name |-> "fan", refresh |-> FALSE, arg |-> l] : l \in FanLevels}
    \cup {[name |-> "power", refresh |-> FALSE, arg |-> s] : s \in PowerStates}

\* permission bits as octal digits <<owner, group, other>>
NoMode == <<0, 0, 0>>
\* the mode argument 0o755 of makedirs (line 47) and of os.open (line 48)
CreateMode == <<7, 5, 5>>
\* usual masks: 0o022 (the default of most systems) and 0o077
Umasks == {<<0, 2, 2>>, <<0, 7, 7>>}

\* one octal digit of a mode with the bits of the mask digit cleared
ClearBits(d, m) ==
    LET Bit(x, k) == (x \div k) % 2
        Keep(k) == IF Bit(d, k) = 1 /\ Bit(m, k) = 0 THEN k ELSE 0
    IN  Keep(4) + Keep(2) + Keep(1)

\* the mode a creating call gives a new directory or file: mode & ~umask
Created(mode, mask) == [i \in 1..3 |-> ClearBits(mode[i], mask[i])]

Disk == [dir |-> dirExists, exists |-> fileExists, bytes |-> file,
         dmode |-> dirMode, fmode |-> fileMode]
EmptyDisk == [dir |-> FALSE, exists |-> FALSE, bytes |-> <<>>,
              dmode |-> NoMode, fmode |-> NoMode]

\* a printed line (a device block of DevicesCmd counts as one line)
Line(kind) == [kind |-> kind, n |-> 0, default |-> FALSE, device |-> Null]

\* before any save() has returned
NoSaver == "nobody"

\* before any login or refresh has completed
NoDirectory == [known |-> FALSE, devices |-> <<>>]

Event(op, arg, ok, ret) == [op |-> op, arg |-> arg, ok |-> ok, ret |-> ret]

\* the uncaught exception e ends process p
Raise(p, e) ==
    /\ pc' = [pc EXCEPT ![p] = "failed"]
    /\ err' = [err EXCEPT ![p] = e]

Log(p, e) == events' = [events EXCEPT ![p] = Append(@, e)]

----------------------------------------------------------------------------
Init ==
    /\ dirExists = FALSE
    /\ fileExists = FALSE
    /\ file = <<>>
    /\ pc = [p \in Procs |-> "idle"]
    /\ cmd = [p \in Procs |-> NoCmd]
    /\ config = [p \in Procs |-> EmptyConfig]
    /\ err = [p \in Procs |-> NoError]
    /\ events = [p \in Procs |-> <<>>]
    /\ file0 = [p \in Procs |-> EmptyDisk]
    /\ wbuf = [p \in Procs |-> <<>>]
    /\ wpos = [p \in Procs |-> 0]
    /\ interrupts = 0
    /\ umask = <<0, 2, 2>>
    /\ dirMode = NoMode
    /\ fileMode = NoMode
    /\ out = [p \in Procs |-> <<>>]
    /\ lastDevices = NoDirectory
    /\ lastSaver = NoSaver

\* a process is started with a command line once no other invocation is running
Start(p) ==
    /\ \A q \in Procs : pc[q] = "idle"
    /\ \E c \in Commands : cmd' = [cmd EXCEPT ![p] = c]
    /\ pc' = [pc EXCEPT ![p] = "main"]
    /\ file0' = [file0 EXCEPT ![p] = Disk]
    /\ UNCHANGED <<dirExists, fileExists, file, config, err, events, wbuf, wpos, interrupts,
                 umask, dirMode, fileMode, out, lastDevices,
                 lastSaver>>

\* main(), lines 196-198: no subcommand prints the help and returns
MainHelp(p) ==
    /\ pc[p] = "main"
    /\ cmd[p].name = "help"
    /\ out' = [out EXCEPT ![p] = <<Line("help")>>]
    /\ pc' = [pc EXCEPT ![p] = "done"]
    /\ UNCHANGED <<dirExists, fileExists, file, cmd, config, err, events, file0, wbuf, wpos,
                 interrupts, umask, dirMode, fileMode, lastDevices,
                 lastSaver>>

\* faulty variant: a file that cannot be loaded is treated like a missing one
MainLoadLenient(p) ==
    /\ pc[p] = "main"
    /\ cmd[p].name # "help"
    /\ LET r == LoadFromDisk(fileExists, file)
       IN  IF r.ok
           THEN /\ config' = [config EXCEPT ![p] = r.val]
                /\ pc' = [pc EXCEPT ![p] = "execute"]
                /\ err' = err
           ELSE /\ config' = [config EXCEPT ![p] = EmptyConfig]
                /\ pc' = [pc EXCEPT ![p] = "execute"]
                /\ err' = err
    /\ UNCHANGED <<dirExists, fileExists, file, cmd, events, file0, wbuf, wpos, interrupts,
                 umask, dirMode, fileMode, out, lastDevices,
                 lastSaver>>

\* main(), line 201: Configuration(...) is constructed, which loads from disk
MainLoad(p) ==
    /\ pc[p] = "main"
    /\ cmd[p].name # "help"
    /\ LET r == LoadFromDisk(fileExists, file)
       IN  IF r.ok
           THEN /\ config' = [config EXCEPT ![p] = r.val]
                /\ pc' = [pc EXCEPT ![p] = "execute"]
                /\ err' = err
           ELSE /\ Raise(p, r.error)
                /\ config' = config
    /\ UNCHANGED <<dirExists, fileExists, file, cmd, events, file0, wbuf, wpos, interrupts,
                 umask, dirMode, fileMode, out, lastDevices,
                 lastSaver>>

----------------------------------------------------------------------------
(* LoginCmd *)

\* _login, line 84: self.config.cognito = login(username, password)
LoginCmdLogin(p) ==
    /\ pc[p] = "execute"
    /\ cmd[p].name = "login" /\ ~cmd[p].refresh
    /\ \/ /\ Log(p, Event("auth.login", <<cmd[p].arg>>, FALSE, Null))
          /\ Raise(p, AuthenticationFailed)
          /\ config' = config
       \/ \E s \in Sessions :
             /\ Log(p, Event("auth.login", <<cmd[p].arg>>, TRUE, s))
             /\ config' = [config EXCEPT ![p].cognito = s]
             /\ pc' = [pc EXCEPT ![p] = "register_user"]
             /\ err' = err
    /\ UNCHANGED <<dirExists, fileExists, file, cmd, file0, wbuf, wpos, interrupts,
                 umask, dirMode, fileMode, out, lastDevices,
                 lastSaver>>

\* a WinixAccount call that returns nothing: it raises, or control moves to next
AccountCall(p, at, op, arg, next) ==
    /\ pc[p] = at
    /\ \/ /\ Log(p, Event(op, arg, FALSE, Null))
          /\ Raise(p, AccountCallFailed)
       \/ /\ Log(p, Event(op, arg, TRUE, Null))
          /\ pc' = [pc EXCEPT ![p] = next]
          /\ err' = err
    /\ UNCHANGED <<dirExists, fileExists, file, cmd, config, file0, wbuf, wpos, interrupts,
                 umask, dirMode, fileMode, out, lastDevices,
                 lastSaver>>

\* faulty variant: login persists once the session is registered, before the token is
\* checked and the device list is fetched
LoginRegisterUserThenSave(p) ==
    AccountCall(p, "register_user", "register_user",
                <<config[p].cognito.access_token, cmd[p].arg>>, "save")

\* _login, lines 85-86: account.register_user(username)
LoginRegisterUser(p) ==
    AccountCall(p, "register_user", "register_user",
                <<config[p].cognito.access_token, cmd[p].arg>>, "check_access_token")

\* faulty variant: the exception of check_access_token is swallowed and login goes on
LoginCheckAccessTokenSwallowed(p) ==
    /\ pc[p] = "check_access_token"
    /\ \E ok \in BOOLEAN :
          Log(p, Event("check_access_token", <<config[p].cognito.access_token>>, ok, Null))
    /\ pc' = [pc EXCEPT ![p] = "get_device_info_list"]
    /\ UNCHANGED <<dirExists, fileExists, file, cmd, config, err, file0, wbuf, wpos, interrupts,
                 umask, dirMode, fileMode, out, lastDevices,
                 lastSaver>>

\* _login, line 87: account.check_access_token()
LoginCheckAccessToken(p) ==
    AccountCall(p, "check_access_token", "check_access_token",
                <<config[p].cognito.access_token>>, "get_device_info_list")

\* account.get_device_info_list() assigned to self.config.devices, then save()
GetDeviceInfoList(p) ==
    \/ /\ Log(p, Event("get_device_info_list", <<config[p].cognito.access_token>>,
                       FALSE, Null))
       /\ Raise(p, AccountCallFailed)
       /\ config' = config
    \/ \E ds \in DeviceLists :
          /\ Log(p, Event("get_device_info_list", <<config[p].cognito.access_token>>,
                          TRUE, ds))
          /\ config' = [config EXCEPT ![p].devices = ds]
          /\ pc' = [pc EXCEPT ![p] = "save"]
          /\ err' = err

\* _login, line 88
LoginGetDeviceInfoList(p) ==
    /\ pc[p] = "get_device_info_list"
    /\ GetDeviceInfoList(p)
    /\ UNCHANGED <<dirExists, fileExists, file, cmd, file0, wbuf, wpos, interrupts,
                 umask, dirMode, fileMode, out, lastDevices,
                 lastSaver>>

\* faulty variant: the refresh response carries no refresh token and the session
\* is stored without one
LoginCmdRefreshDropsToken(p) ==
    /\ pc[p] = "execute"
    /\ cmd[p].name = "login" /\ cmd[p].refresh
    /\ IF config[p].cognito = Null
       THEN /\ Raise(p, NoSessionError)
            /\ UNCHANGED <<config, events>>
       ELSE LET arg == <<config[p].cognito.user_id, config[p].cognito.refresh_token>>
            IN  \/ /\ Log(p, Event("auth.refresh", arg, FALSE, Null))
                   /\ Raise(p, AuthenticationFailed)
                   /\ config' = config
                \/ \E s \in Sessions :
                      /\ Log(p, Event("auth.refresh", arg, TRUE, s))
                      /\ config' = [config EXCEPT ![p].cognito =
                                       [s EXCEPT !.refresh_token = <<>>]]
                      /\ pc' = [pc EXCEPT ![p] = "refresh_check"]
                      /\ err' = err
    /\ UNCHANGED <<dirExists, fileExists, file, cmd, file0, wbuf, wpos, interrupts,
                 umask, dirMode, fileMode, out, lastDevices,
                 lastSaver>>

\* faulty variant: refresh() is called whether or not a session is loaded
LoginCmdRefreshUnguarded(p) ==
    /\ pc[p] = "execute"
    /\ cmd[p].name = "login" /\ cmd[p].refresh
    /\ LET arg == IF config[p].cognito = Null THEN <<>>
                  ELSE <<config[p].cognito.user_id, config[p].cognito.refresh_token>>
       IN  \/ /\ Log(p, Event("auth.refresh", arg, FALSE, Null))
              /\ Raise(p, AuthenticationFailed)
              /\ config' = config
           \/ \E s \in Sessions :
                 /\ Log(p, Event("auth.refresh", arg, TRUE, s))
                 /\ config' = [config EXCEPT ![p].cognito = s]
                 /\ pc' = [pc EXCEPT ![p] = "refresh_check"]
                 /\ err' = err
    /\ UNCHANGED <<dirExists, fileExists, file, cmd, file0, wbuf, wpos, interrupts,
                 umask, dirMode, fileMode, out, lastDevices,
                 lastSaver>>

\* _refresh, lines 93-96: the arguments are evaluated before refresh() is called
LoginCmdRefresh(p) ==
    /\ pc[p] = "execute"
    /\ cmd[p].name = "login" /\ cmd[p].refresh
    /\ IF config[p].cognito = Null
       THEN /\ Raise(p, NoSessionError)
            /\ UNCHANGED <<config, events>>
       ELSE LET arg == <<config[p].cognito.user_id, config[p].cognito.refresh_token>>
            IN  \/ /\ Log(p, Event("auth.refresh", arg, FALSE, Null))
                   /\ Raise(p, AuthenticationFailed)
                   /\ config' = config
                \/ \E s \in Sessions :
                      /\ Log(p, Event("auth.refresh", arg, TRUE, s))
                      /\ config' = [config EXCEPT ![p].cognito = s]
                      /\ pc' = [pc EXCEPT ![p] = "refresh_check"]
                      /\ err' = err
    /\ UNCHANGED <<dirExists, fileExists, file, cmd, file0, wbuf, wpos, interrupts,
                 umask, dirMode, fileMode, out, lastDevices,
                 lastSaver>>

\* _refresh, line 97: WinixAccount(access_token).check_access_token()
RefreshCheckAccessToken(p) ==
    AccountCall(p, "refresh_check", "check_access_token",
                <<config[p].cognito.access_token>>, "save")

----------------------------------------------------------------------------
(* DevicesCmd, FanCmd, PowerCmd, RefreshCmd *)

\* faulty variant: every block carries the default label
DevicesOutputAllDefault(devices) ==
    <<[Line("count") EXCEPT !.n = Len(devices)]>>
    \o [i \in 1..Len(devices) |->
           [kind |-> "block", n |-> i - 1, default |-> TRUE, device |-> devices[i]]]
    \o <<Line("hint")>>

\* DevicesCmd.execute, lines 113-131: the count, one block per device with
\* its index and its label, and the closing hint
DevicesOutput(devices) ==
    <<[Line("count") EXCEPT !.n = Len(devices)]>>
    \o [i \in 1..Len(devices) |->
           [kind |-> "block", n |-> i - 1, default |-> (i - 1 = 0), device |-> devices[i]]]
    \o <<Line("hint")>>

\* DevicesCmd.execute: prints the loaded list
DevicesCmdExecute(p) ==
    /\ pc[p] = "execute"
    /\ cmd[p].name = "devices"
    /\ out' = [out EXCEPT ![p] = DevicesOutput(config[p].devices)]
    /\ pc' = [pc EXCEPT ![p] = "done"]
    /\ UNCHANGED <<dirExists, fileExists, file, cmd, config, err, events, file0, wbuf, wpos,
                 interrupts, umask, dirMode, fileMode, lastDevices,
                 lastSaver>>

\* faulty variant: the fan command refuses to run without a session
FanCmdExecuteNeedsSession(p) ==
    /\ pc[p] = "execute"
    /\ cmd[p].name = "fan"
    /\ IF config[p].cognito = Null
       THEN /\ Raise(p, NoSessionError)
            /\ UNCHANGED <<events, out>>
       ELSE IF config[p].devices = <<>>
       THEN /\ Raise(p, NoDeviceError)
            /\ UNCHANGED <<events, out>>
       ELSE LET arg == <<config[p].devices[1].id, cmd[p].arg>>
            IN  \/ /\ Log(p, Event("control", arg, FALSE, Null))
                   /\ Raise(p, ControlError)
                   /\ out' = out
                \/ /\ Log(p, Event("control", arg, TRUE, Null))
                   /\ out' = [out EXCEPT ![p] = <<Line("ok")>>]
                   /\ pc' = [pc EXCEPT ![p] = "done"]
                   /\ err' = err
    /\ UNCHANGED <<dirExists, fileExists, file, cmd, config, file0, wbuf, wpos, interrupts,
                 umask, dirMode, fileMode, lastDevices,
                 lastSaver>>

\* faulty variant: the fan command saves the configuration after the call
FanCmdExecuteThenSave(p) ==
    /\ pc[p] = "execute"
    /\ cmd[p].name = "fan"
    /\ IF config[p].devices = <<>>
       THEN /\ Raise(p, NoDeviceError)
            /\ UNCHANGED <<events, out>>
       ELSE LET arg == <<config[p].devices[1].id, cmd[p].arg>>
            IN  \/ /\ Log(p, Event("control", arg, FALSE, Null))
                   /\ Raise(p, ControlError)
                   /\ out' = out
                \/ /\ Log(p, Event("control", arg, TRUE, Null))
                   /\ out' = [out EXCEPT ![p] = <<Line("ok")>>]
                   /\ pc' = [pc EXCEPT ![p] = "save"]
                   /\ err' = err
    /\ UNCHANGED <<dirExists, fileExists, file, cmd, config, file0, wbuf, wpos, interrupts,
                 umask, dirMode, fileMode, lastDevices,
                 lastSaver>>

\* faulty variant: the command is sent whether or not a device is loaded
FanCmdExecuteUnguarded(p) ==
    /\ pc[p] = "execute"
    /\ cmd[p].name = "fan"
    /\ LET arg == IF config[p].devices = <<>> THEN <<cmd[p].arg>>
                  ELSE <<config[p].devices[1].id, cmd[p].arg>>
       IN  \/ /\ Log(p, Event("control", arg, FALSE, Null))
              /\ Raise(p, ControlError)
           \/ /\ Log(p, Event("control", arg, TRUE, Null))
              /\ pc' = [pc EXCEPT ![p] = "done"]
              /\ err' = err
    /\ UNCHANGED <<dirExists, fileExists, file, cmd, config, file0, wbuf, wpos, interrupts,
                 umask, dirMode, fileMode, out, lastDevices,
                 lastSaver>>

\* FanCmd.execute: self.config.device.id is evaluated before WinixDevice is built
FanCmdExecute(p) ==
    /\ pc[p] = "execute"
    /\ cmd[p].name = "fan"
    /\ IF config[p].devices = <<>>
       THEN /\ Raise(p, NoDeviceError)
            /\ UNCHANGED <<events, out>>
       ELSE LET arg == <<config[p].devices[1].id, cmd[p].arg>>
            IN  \/ /\ Log(p, Event("control", arg, FALSE, Null))
                   /\ Raise(p, ControlError)
                   /\ out' = out
                \/ /\ Log(p, Event("control", arg, TRUE, Null))
                   /\ out' = [out EXCEPT ![p] = <<Line("ok")>>]
                   /\ pc' = [pc EXCEPT ![p] = "done"]
                   /\ err' = err
    /\ UNCHANGED <<dirExists, fileExists, file, cmd, config, file0, wbuf, wpos, interrupts,
                 umask, dirMode, fileMode, lastDevices,
                 lastSaver>>

\* PowerCmd defines no execute: main()'s .execute() lookup raises
PowerCmdExecute(p) ==
    /\ pc[p] = "execute"
    /\ cmd[p].name = "power"
    /\ Raise(p, NoExecuteError)
    /\ UNCHANGED <<dirExists, fileExists, file, cmd, config, events, file0, wbuf, wpos, interrupts,
                 umask, dirMode, fileMode, out, lastDevices,
                 lastSaver>>

\* RefreshCmd.execute, lines 174-175
RefreshCmdExecute(p) ==
    /\ pc[p] = "execute"
    /\ cmd[p].name = "refresh"
    /\ IF config[p].cognito = Null
       THEN /\ Raise(p, NoSessionError)
            /\ UNCHANGED <<config, events>>
       ELSE GetDeviceInfoList(p)
    /\ UNCHANGED <<dirExists, fileExists, file, cmd, file0, wbuf, wpos, interrupts,
                 umask, dirMode, fileMode, out, lastDevices,
                 lastSaver>>

----------------------------------------------------------------------------
(* Configuration.save, in the steps the operating system sees *)

\* line 47: makedirs(dirname, exist_ok=True)
SaveMakedirs(p) ==
    /\ pc[p] = "save"
    /\ Log(p, Event("save", <<>>, TRUE, Null))
    /\ dirExists' = TRUE
    /\ dirMode' = IF dirExists THEN dirMode ELSE Created(CreateMode, umask)
    /\ pc' = [pc EXCEPT ![p] = "save_open"]
    /\ UNCHANGED <<fileExists, file, cmd, config, err, file0, wbuf, wpos, interrupts,
                 umask, fileMode, out, lastDevices,
                 lastSaver>>

\* line 48: os.open(path, O_CREAT | O_WRONLY) creates an empty file when there
\* is none and leaves the bytes of an existing file in place; the descriptor
\* starts at offset 0.  Lines 49-52: json.dump produces the text to write.
SaveOpen(p) ==
    /\ pc[p] = "save_open"
    /\ fileExists' = TRUE
    /\ fileMode' = IF fileExists THEN fileMode ELSE Created(CreateMode, umask)
    /\ wbuf' = [wbuf EXCEPT ![p] = JsonDump(config[p].cognito, config[p].devices)]
    /\ wpos' = [wpos EXCEPT ![p] = 0]
    /\ pc' = [pc EXCEPT ![p] = "save_write"]
    /\ UNCHANGED <<dirExists, file, cmd, config, err, events, file0, interrupts,
                 umask, dirMode, out, lastDevices,
                 lastSaver>>

\* the buffered text reaches the file in write() calls of at most BufferSize
\* characters; after the last one the file is closed and the command prints Ok
\* (lines 90, 99, 177)
SaveWrite(p) ==
    /\ pc[p] = "save_write"
    /\ LET left == Len(wbuf[p]) - wpos[p]
           n == IF left < BufferSize THEN left ELSE BufferSize
       IN  /\ file' = WriteAt(file, wpos[p], SubSeq(wbuf[p], wpos[p] + 1, wpos[p] + n))
           /\ wpos' = [wpos EXCEPT ![p] = @ + n]
           /\ pc' = [pc EXCEPT ![p] = IF n = left THEN "done" ELSE "save_write"]
           /\ out' = IF n = left THEN [out EXCEPT ![p] = <<Line("Ok")>>] ELSE out
           /\ lastDevices' =
                 IF n = left /\ (cmd[p].name = "refresh" \/ ~cmd[p].refresh)
                 THEN [known |-> TRUE, devices |-> config[p].devices]
                 ELSE lastDevices
           /\ lastSaver' = IF n = left THEN p ELSE lastSaver
    /\ UNCHANGED <<dirExists, fileExists, cmd, config, err, events, file0, wbuf, interrupts,
                 umask, dirMode, fileMode>>

----------------------------------------------------------------------------
(* The environment *)

\* the process is killed while it is in Configuration.save(); a kill anywhere
\* else leaves the disk as the process found it
Interrupt(p) ==
    /\ pc[p] \in {"save", "save_open", "save_write"}
    /\ interrupts < MaxInterrupts
    /\ interrupts' = interrupts + 1
    /\ pc' = [pc EXCEPT ![p] = "crashed"]
    /\ UNCHANGED <<dirExists, fileExists, file, cmd, config, err, events, file0, wbuf, wpos,
                 umask, dirMode, fileMode, out, lastDevices,
                 lastSaver>>

\* the process is gone; only the disk remains
Exit(p) ==
    /\ pc[p] \in {"done", "failed", "crashed"}
    /\ pc' = [pc EXCEPT ![p] = "idle"]
    /\ cmd' = [cmd EXCEPT ![p] = NoCmd]
    /\ config' = [config EXCEPT ![p] = EmptyConfig]
    /\ err' = [err EXCEPT ![p] = NoError]
    /\ events' = [events EXCEPT ![p] = <<>>]
    /\ file0' = [file0 EXCEPT ![p] = EmptyDisk]
    /\ wbuf' = [wbuf EXCEPT ![p] = <<>>]
    /\ wpos' = [wpos EXCEPT ![p] = 0]
    /\ out' = [out EXCEPT ![p] = <<>>]
    /\ UNCHANGED <<dirExists, fileExists, file, interrupts,
                 umask, dirMode, fileMode, lastDevices,
                 lastSaver>>

\* one step of the code of a running invocation
Run(p) ==
    \/ MainHelp(p)
    \/ MainLoad(p)
    \/ LoginCmdLogin(p)
    \/ LoginRegisterUser(p)
    \/ LoginCheckAccessToken(p)
    \/ LoginGetDeviceInfoList(p)
    \/ LoginCmdRefresh(p)
    \/ RefreshCheckAccessToken(p)
    \/ DevicesCmdExecute(p)
    \/ FanCmdExecute(p)
    \/ PowerCmdExecute(p)
    \/ RefreshCmdExecute(p)
    \/ SaveMakedirs(p)
    \/ SaveOpen(p)
    \/ SaveWrite(p)

\* one step of an invocation or of its environment
Step(p) == Run(p) \/ Interrupt(p) \/ Exit(p)

Next == Start("p1") \/ Step("p1")

Spec == Init /\ [][Next]_vars

----------------------------------------------------------------------------
(* Invocations, one at a time and none killed, on a config file that was   *)
(* put at the path by other means: any ConfigState of the documented       *)
(* format, and texts that are not one.                                     *)

\* a session object that lacks its refresh_token
SessionMissingField(c) == <<"{">> \o Quote(c.user_id) \o Quote(c.access_token) \o <<"}">>
\* a device object that lacks its location_code
DeviceMissingField(d) == <<"{">> \o Quote(d.id) \o Quote(d.mac) \o Quote(d.alias) \o <<"}">>

MalformedFiles ==
    {<<"{", "c">> \o SessionMissingField(c) \o <<",", "d", "[">> \o DumpDevices(ds)
                  \o <<"]", "}">> : c \in Sessions, ds \in {<<>>, <<Device1>>}}
    \cup {<<"{", "c">> \o DumpCognito(c) \o <<",", "d", "[">> \o DeviceMissingField(Device1)
                       \o <<"]", "}">> : c \in Sessions \cup {Null}}

\* texts that are not JSON: an empty file and a file cut short
BrokenFiles == {<<>>, SubSeq(JsonDump(SessionA, <<Device1>>), 1, BufferSize)}

WellFormedFiles == {JsonDump(c, ds) : c \in Sessions \cup {Null}, ds \in DeviceLists}

InitFiles ==
    /\ dirExists = TRUE
    /\ fileExists = TRUE
    /\ file \in WellFormedFiles \cup MalformedFiles \cup BrokenFiles
    /\ pc = [p \in Procs |-> "idle"]
    /\ cmd = [p \in Procs |-> NoCmd]
    /\ config = [p \in Procs |-> EmptyConfig]
    /\ err = [p \in Procs |-> NoError]
    /\ events = [p \in Procs |-> <<>>]
    /\ file0 = [p \in Procs |-> EmptyDisk]
    /\ wbuf = [p \in Procs |-> <<>>]
    /\ wpos = [p \in Procs |-> 0]
    /\ interrupts = 0
    /\ umask \in Umasks
    /\ dirMode = Created(CreateMode, umask)
    /\ fileMode = Created(CreateMode, umask)
    /\ out = [p \in Procs |-> <<>>]
    /\ lastDevices = NoDirectory
    /\ lastSaver = NoSaver

NextFiles == Start("p1") \/ Run("p1") \/ Exit("p1")

SpecFiles == InitFiles /\ [][NextFiles]_vars

----------------------------------------------------------------------------
(* Two invocations at once on a config file that earlier invocations saved *)

SavedFiles == {JsonDump(c, ds) : c \in Sessions, ds \in DeviceLists}

MutatingCommands == {c \in Commands : c.name \in {"login", "refresh"}}

InitConc ==
    /\ dirExists = TRUE
    /\ fileExists = TRUE
    /\ file \in SavedFiles
    /\ pc = [p \in Procs |-> "idle"]
    /\ cmd = [p \in Procs |-> NoCmd]
    /\ config = [p \in Procs |-> EmptyConfig]
    /\ err = [p \in Procs |-> NoError]
    /\ events = [p \in Procs |-> <<>>]
    /\ file0 = [p \in Procs |-> EmptyDisk]
    /\ wbuf = [p \in Procs |-> <<>>]
    /\ wpos = [p \in Procs |-> 0]
    /\ interrupts = 0
    /\ umask = <<0, 2, 2>>
    /\ dirMode = Created(CreateMode, umask)
    /\ fileMode = Created(CreateMode, umask)
    /\ out = [p \in Procs |-> <<>>]
    /\ lastDevices = NoDirectory
    /\ lastSaver = NoSaver

\* a process is started, once, while the other may be running
StartConcurrent(p) ==
    /\ pc[p] = "idle"
    /\ \E c \in MutatingCommands : cmd' = [cmd EXCEPT ![p] = c]
    /\ pc' = [pc EXCEPT ![p] = "main"]
    /\ file0' = [file0 EXCEPT ![p] = Disk]
    /\ UNCHANGED <<dirExists, fileExists, file, config, err, events, wbuf, wpos, interrupts,
                 umask, dirMode, fileMode, out, lastDevices, lastSaver>>

\* the schedules in which each process constructs its Configuration before the
\* other one does anything else: a process loads, and goes on once both have
RunConcurrent(p) ==
    /\ pc[p] = "main" \/ \A q \in Procs : pc[q] \notin {"idle", "main"}
    /\ Run(p)

NextConc == \E p \in Procs : StartConcurrent(p) \/ RunConcurrent(p)

SpecConc == InitConc /\ [][NextConc]_vars

----------------------------------------------------------------------------
(* Vocabulary of the properties *)

Ops(p) == [i \in 1..Len(events[p]) |-> events[p][i].op]
Saves(p) == {i \in 1..Len(events[p]) : events[p][i].op = "save"}
RemoteFailed(p) == \E i \in 1..Len(events[p]) : ~events[p][i].ok

\* what a fresh Configuration would load now, and what process p found at its start
LoadNow == LoadFromDisk(fileExists, file)
LoadThen(p) == LoadFromDisk(file0[p].exists, file0[p].bytes)

\* a fresh load yields exactly the session and devices process p holds in memory
DiskHolds(p) ==
    /\ LoadNow.ok
    /\ LoadNow.val.cognito = config[p].cognito
    /\ LoadNow.val.devices = config[p].devices

Mutating(p) == cmd[p].name \in {"login", "refresh"}
IsLogin(p) == cmd[p].name = "login" /\ ~cmd[p].refresh
IsTokenRefresh(p) == cmd[p].name = "login" /\ cmd[p].refresh
\* execute() has been entered and has taken its first step
Executed(p) == pc[p] \notin {"idle", "main", "execute"} /\ err[p] \notin ConfigUnreadable

----------------------------------------------------------------------------
\* C1: after save() has completed in a command, a fresh load of the same path
\* yields the session and the devices that were saved, whatever the file held
\* before (nothing, or an earlier save of any length).
SaveLoadRoundTrip ==
    \A p \in Procs : (pc[p] = "done" /\ Saves(p) # {}) => DiskHolds(p)

\* C2: when a remote call of a mutating command has failed, the command has
\* failed and the disk is exactly as the invocation found it.
StateUnchangedOnError ==
    \A p \in Procs :
        (Mutating(p) /\ RemoteFailed(p)) => (pc[p] = "failed" /\ Disk = file0[p])

\* a login whose device-list call failed after the session was obtained, with an
\* earlier config file on disk
StateUnchangedOnErrorWitness ==
    \E p \in Procs :
        /\ IsLogin(p) /\ pc[p] = "failed" /\ file0[p].exists
        /\ Len(events[p]) = 4 /\ ~events[p][4].ok
        /\ config[p].cognito # LoadThen(p).val.cognito

\* C3: a command calls save at most once, as its last call, after all its
\* remote calls have returned successfully and their results are in memory;
\* the disk is not touched by an invocation that has not called save.
SinglePersistLast ==
    \A p \in Procs :
        /\ Cardinality(Saves(p)) <= 1
        /\ \A i \in Saves(p) :
              /\ i = Len(events[p])
              /\ \A j \in 1..(i - 1) : events[p][j].ok
              /\ Mutating(p)
              /\ IsLogin(p) =>
                    /\ Ops(p) = <<"auth.login", "register_user", "check_access_token",
                                  "get_device_info_list", "save">>
                    /\ config[p].cognito = events[p][1].ret
                    /\ config[p].devices = events[p][4].ret
              /\ IsTokenRefresh(p) =>
                    /\ Ops(p) = <<"auth.refresh", "check_access_token", "save">>
                    /\ config[p].cognito = events[p][1].ret
              /\ cmd[p].name = "refresh" =>
                    /\ Ops(p) = <<"get_device_info_list", "save">>
                    /\ config[p].devices = events[p][1].ret
        /\ (pc[p] # "idle" /\ Saves(p) = {}) => Disk = file0[p]

\* a login that has saved, after its four remote calls, and finished
SinglePersistLastWitness ==
    \E p \in Procs :
        /\ IsLogin(p) /\ pc[p] = "done" /\ Len(events[p]) = 5
        /\ Disk # file0[p]

\* C4: a power command run with at least one device sends exactly one command
\* to the first device and completes successfully.
PowerSendsOneCommand ==
    \A p \in Procs :
        (cmd[p].name = "power" /\ Executed(p) /\ config[p].devices # <<>>) =>
            /\ pc[p] = "done"
            /\ events[p] = <<Event("control", <<config[p].devices[1].id, cmd[p].arg>>,
                                   TRUE, Null)>>

\* C5: login --refresh with no session loaded fails with NoSessionError, makes
\* no remote call and leaves the disk as it was.
TokenRefreshNeedsSession ==
    \A p \in Procs :
        (IsTokenRefresh(p) /\ Executed(p) /\ config[p].cognito = Null) =>
            /\ pc[p] = "failed"
            /\ err[p] = NoSessionError
            /\ events[p] = <<>>
            /\ Disk = file0[p]

TokenRefreshNeedsSessionWitness ==
    \E p \in Procs :
        /\ IsTokenRefresh(p) /\ pc[p] = "failed" /\ err[p] = NoSessionError
        /\ config[p].cognito = Null

\* C6: a fan command with zero devices loaded fails with NoDeviceError, makes
\* no remote call and leaves the disk as it was.
FanNeedsDevice ==
    \A p \in Procs :
        (cmd[p].name = "fan" /\ Executed(p) /\ config[p].devices = <<>>) =>
            /\ pc[p] = "failed"
            /\ err[p] = NoDeviceError
            /\ events[p] = <<>>
            /\ Disk = file0[p]

\* fan high fails on a config file that holds a session and an empty device list
FanNeedsDeviceWitness ==
    \E p \in Procs :
        /\ cmd[p].name = "fan" /\ cmd[p].arg = "high" /\ pc[p] = "failed"
        /\ err[p] = NoDeviceError
        /\ config[p].exists /\ config[p].cognito # Null /\ config[p].devices = <<>>

\* C7: after a successful login the config file loads to the session the Auth
\* Client returned and to the device list the directory returned, element for
\* element, and was written by one save.
LoginPersistsExactly ==
    \A p \in Procs :
        (IsLogin(p) /\ pc[p] = "done") =>
            /\ Cardinality(Saves(p)) = 1
            /\ LoadNow.ok
            /\ LoadNow.val.cognito = events[p][1].ret
            /\ LoadNow.val.devices = events[p][4].ret

\* C8: a successful login --refresh calls refresh with the stored user_id and
\* refresh_token, persists the returned session, and the persisted device list
\* is what it was before the command.
TokenRefreshKeepsDevices ==
    \A p \in Procs :
        (IsTokenRefresh(p) /\ pc[p] = "done") =>
            /\ events[p][1].op = "auth.refresh"
            /\ events[p][1].arg = <<LoadThen(p).val.cognito.user_id,
                                    LoadThen(p).val.cognito.refresh_token>>
            /\ LoadNow.ok
            /\ LoadNow.val.cognito = events[p][1].ret
            /\ LoadNow.val.devices = LoadThen(p).val.devices

\* C9: refresh with no session fails with NoSessionError without a remote call
\* or a save; with a session it persists, in one save, the returned device list
\* in place of the old one and the session unchanged.
RefreshReplacesDevices ==
    \A p \in Procs :
        (cmd[p].name = "refresh" /\ Executed(p) /\ pc[p] \in {"done", "failed"}) =>
            /\ config[p].cognito = Null =>
                  /\ pc[p] = "failed" /\ err[p] = NoSessionError
                  /\ events[p] = <<>> /\ Disk = file0[p]
            /\ pc[p] = "done" =>
                  /\ Ops(p) = <<"get_device_info_list", "save">>
                  /\ LoadNow.ok
                  /\ LoadNow.val.devices = events[p][1].ret
                  /\ LoadNow.val.cognito = LoadThen(p).val.cognito

\* C10: when the process is interrupted during save, the path holds either
\* what it held before (a complete previous file, or no file) or the complete
\* new ConfigState.
SaveIsCrashSafe ==
    \A p \in Procs :
        pc[p] = "crashed" =>
            \/ (fileExists = file0[p].exists /\ file = file0[p].bytes)
            \/ DiskHolds(p)

----------------------------------------------------------------------------
\* no invocation is running
Quiescent == \A p \in Procs : pc[p] \in {"idle", "done", "failed"}

\* every required field of a session holds a value
Populated(c) == c.user_id # <<>> /\ c.access_token # <<>> /\ c.refresh_token # <<>>

ControlCommandsNeverPersist ==
    \A p \in Procs :
        (cmd[p].name \in {"fan", "power", "devices"}) =>
            /\ Saves(p) = {}
            /\ pc[p] \notin {"save", "save_open", "save_write", "crashed"}
            /\ Disk = file0[p]
            /\ Executed(p) => config[p] = LoadThen(p).val

\* a fan command has been sent and acknowledged, with a config file on disk
ControlCommandsNeverPersistWitness ==
    \E p \in Procs :
        /\ cmd[p].name = "fan" /\ pc[p] = "done" /\ fileExists
        /\ Len(events[p]) = 1 /\ events[p][1].ok

\* C13 as stated: with at least one device and no session loaded, a fan or
\* power command sends no command to the Device Control Client.
ControlRequiresSession ==
    \A p \in Procs :
        (cmd[p].name \in {"fan", "power"} /\ Executed(p)
            /\ config[p].devices # <<>> /\ config[p].cognito = Null) =>
                events[p] = <<>>

\* C13 as amended: a fan command needs a device and no session: with at least
\* one device loaded, and a session loaded or not, it sends exactly one
\* command, with the chosen level, to the first device.
FanNeedsNoSession ==
    \A p \in Procs :
        (cmd[p].name = "fan" /\ Executed(p) /\ config[p].devices # <<>>) =>
            /\ pc[p] \in {"done", "failed"}
            /\ events[p] = <<Event("control", <<config[p].devices[1].id, cmd[p].arg>>,
                                   pc[p] = "done", Null)>>

\* fan turbo has been sent from a config file with one device and no session
FanNeedsNoSessionWitness ==
    \E p \in Procs :
        /\ cmd[p].name = "fan" /\ cmd[p].arg = "turbo" /\ pc[p] = "done"
        /\ config[p].cognito = Null /\ config[p].devices = <<Device1>>
        /\ Len(events[p]) = 1

\* a mode that gives group and others no read, write or execute bit
OwnerOnly(mode) == mode[2] = 0 /\ mode[3] = 0

\* C14: the parent directory and the config file, once save has created them,
\* are accessible to their owner only.
CreatedOwnerOnly ==
    /\ dirExists => OwnerOnly(dirMode)
    /\ fileExists => OwnerOnly(fileMode)

\* C15: loading a config file whose session object lacks a required field, or
\* that has a device entry lacking one, fails with ConfigUnreadable and yields
\* no ConfigState.
MalformedFileUnreadable ==
    \A p \in Procs :
        (pc[p] \notin {"idle", "main"} /\ cmd[p] # HelpCmd
            /\ file0[p].exists /\ file0[p].bytes \in MalformedFiles) =>
                /\ pc[p] = "failed"
                /\ err[p] \in ConfigUnreadable
                /\ config[p] = EmptyConfig
                /\ events[p] = <<>>

\* devices has failed on a file whose session has no refresh_token
MalformedFileUnreadableWitness ==
    \E p \in Procs :
        /\ cmd[p].name = "devices" /\ pc[p] = "failed" /\ err[p] = ShapeError
        /\ JsonParse(file).ok /\ JsonParse(file).val.cognito # Null
        /\ Len(JsonParse(file).val.cognito) = 2

\* C16: a load from a path at which no file exists yields the empty ConfigState
\* (no session, no devices) without an error, and leaves the path without a file.
LoadMissingIsEmpty ==
    \A p \in Procs :
        (cmd[p] # HelpCmd /\ pc[p] \notin {"idle", "main"} /\ ~file0[p].exists) =>
            /\ err[p] \notin ConfigUnreadable
            /\ (pc[p] = "execute") =>
                  /\ config[p] = EmptyConfig
                  /\ err[p] = NoError
                  /\ Disk = file0[p]
            /\ (cmd[p].name = "devices" /\ pc[p] = "done") =>
                  /\ config[p] = EmptyConfig
                  /\ ~fileExists

\* devices has run to its end on a path without a file
LoadMissingIsEmptyWitness ==
    \E p \in Procs :
        /\ cmd[p].name = "devices" /\ pc[p] = "done"
        /\ ~file0[p].exists /\ ~fileExists
        /\ config[p] = EmptyConfig

\* C17: devices, on a loaded ConfigState with n devices (n = 0 included),
\* prints the count n, then exactly n blocks in stored order of which only the
\* one at index 0 is labelled default; it never fails and makes no remote call.
DevicesListsAll ==
    \A p \in Procs :
        (cmd[p].name = "devices" /\ Executed(p)) =>
            LET d == config[p].devices
                o == out[p]
                blocks == {i \in 1..Len(o) : o[i].kind = "block"}
            IN  /\ pc[p] = "done"
                /\ err[p] = NoError
                /\ events[p] = <<>>
                /\ d = LoadThen(p).val.devices
                /\ Len(o) = Len(d) + 2
                /\ o[1].kind = "count" /\ o[1].n = Len(d)
                /\ blocks = {i + 1 : i \in 1..Len(d)}
                /\ \A i \in 1..Len(d) :
                      /\ o[i + 1].device = d[i]
                      /\ o[i + 1].n = i - 1
                      /\ o[i + 1].default <=> (i = 1)
                /\ o[Len(o)].kind = "hint"

\* devices has printed a list of MaxDevices devices
DevicesListsAllWitness ==
    \E p \in Procs :
        /\ cmd[p].name = "devices" /\ pc[p] = "done"
        /\ Len(config[p].devices) = MaxDevices
        /\ Len(out[p]) = MaxDevices + 2

\* both invocations are mutating ones and both have returned from save()
BothSaved == \A p \in Procs : Mutating(p) /\ pc[p] = "done" /\ Saves(p) # {}

\* C18: when two mutating invocations run at once on one config path, each
\* loading before the other saves, and both complete, the file is a loadable
\* ConfigState and holds exactly what the invocation that saved last saved.
LastWriterWins ==
    BothSaved => (lastSaver \in Procs /\ DiskHolds(lastSaver))

\* C19: after any sequence of invocations, a successful fan command sends
\* exactly one command, with the chosen level, to the id of the first device the
\* directory returned to the most recent successful login or refresh; token
\* refreshes, failed commands, listings and control commands in between do not
\* change it.
DefaultDeviceStable ==
    \A p \in Procs :
        (cmd[p].name = "fan" /\ pc[p] = "done" /\ lastDevices.known) =>
            /\ lastDevices.devices # <<>>
            /\ events[p] = <<Event("control", <<lastDevices.devices[1].id, cmd[p].arg>>,
                                   TRUE, Null)>>

\* C20: when the config file exists and cannot be loaded, every subcommand
\* (login, login --refresh, refresh, devices, fan, power) fails before any remote
\* call and leaves the file as it is; the help invocation alone succeeds.
CorruptFileFatal ==
    \A p \in Procs :
        (pc[p] \notin {"idle", "main"} /\ file0[p].exists /\ ~LoadThen(p).ok) =>
            /\ events[p] = <<>>
            /\ Disk = file0[p]
            /\ IF cmd[p] = HelpCmd
               THEN pc[p] = "done" /\ err[p] = NoError
               ELSE /\ pc[p] = "failed"
                    /\ err[p] \in ConfigUnreadable
                    /\ config[p] = EmptyConfig
                    /\ out[p] = <<>>

\* a fresh login has failed on a file that is not JSON
CorruptFileFatalWitness ==
    \E p \in Procs :
        /\ IsLogin(p) /\ pc[p] = "failed" /\ err[p] = JsonError
        /\ fileExists /\ ~JsonParse(file).ok
        /\ file = file0[p].bytes

====
